---- MODULE Spec2Model ----
(***************************************************************************)
(* Model of the bucketed buffer cache of kernel/bio.c.                     *)
(*                                                                         *)
(* Contexts (processes, each on its own CPU) call bget/bread/bwrite/       *)
(* brelse/bpin/bunpin.  Every statement group of bio.c that is executed    *)
(* under one lock without blocking is one action; every blocking point     *)
(* (acquire, acquiresleep) is the guard of its own action.  The one        *)
(* read-modify-write that can race with a write made under a different     *)
(* lock (b->refcnt++ of the lookup hit against the allocation scan) is     *)
(* split into its load and its store.                                      *)
(***************************************************************************)
EXTENDS Integers, FiniteSets, Sequences, TLC

\* ---------------------------------------------------------------- bounds
NCtx == 2           \* number of concurrent contexts
NBUF == 2           \* pool size (param.h NBUF, scaled down)
MaxPin == 1         \* outstanding pins per buffer the environment issues
MaxCalls == 8       \* calls the environment issues in one run

\* ------------------------------------------------------ program constants
NBUCKET == 13

\* b->refcnt is a 32-bit uint.  A value is kept as its two's-complement
\* residue: v < 0 stands for 2^32 + v, so 0 - 1 is the residue of 0xffffffff
\* and ++, --, == 0 and != 1 act on residues as they act on the uint.
UInc(v) == v + 1
UDec(v) == v - 1

Ctx == 1..NCtx
NoCtx == 0
Buf == 0..(NBUF - 1)
NULL == -1
Ptr == Buf \cup {NULL}
Bucket == 0..(NBUCKET - 1)

\* identities the environment asks for: two devices sharing block 5 (same
\* bucket, told apart only by dev) and one block of another bucket
Ids == { <<1, 5>>, <<2, 5>>, <<1, 6>> }

VARIABLES
  refcnt, dev, blockno, valid, prev, next,   \* struct buf fields
  buflock,                                   \* b->lock (sleeplock) owner
  head, bucketlock,                          \* struct cache_bucket
  bcachelock,                                \* bcache.lock owner
  pc,                                        \* position of each context
  ldev, lblockno, lb, lbucket, lr,           \* locals of the running call
  held, pins, calls                          \* environment bookkeeping

bufvars == <<refcnt, dev, blockno, valid, prev, next>>
lockvars == <<buflock, bucketlock, bcachelock>>
cachevars == <<refcnt, dev, blockno, valid, prev, next, buflock, head,
               bucketlock, bcachelock>>
localvars == <<ldev, lblockno, lb, lbucket, lr>>
vars == <<refcnt, dev, blockno, valid, prev, next, buflock, head, bucketlock,
          bcachelock, pc, ldev, lblockno, lb, lbucket, lr, held, pins,
          calls>>

hash(n) == n % NBUCKET

PanicPcs == {"panic_bget", "panic_bwrite", "panic_brelse", "panic_release"}

\* ------------------------------------------------------------------ binit
Init ==
  /\ refcnt = [b \in Buf |-> 0]
  /\ dev = [b \in Buf |-> 0]
  /\ blockno = [b \in Buf |-> 0]
  /\ valid = [b \in Buf |-> FALSE]
  /\ prev = [b \in Buf |-> NULL]
  /\ next = [b \in Buf |-> NULL]
  /\ buflock = [b \in Buf |-> NoCtx]
  /\ head = [k \in Bucket |-> NULL]
  /\ bucketlock = [k \in Bucket |-> NoCtx]
  /\ bcachelock = NoCtx
  /\ pc = [c \in Ctx |-> "idle"]
  /\ ldev = [c \in Ctx |-> 0]
  /\ lblockno = [c \in Ctx |-> 0]
  /\ lb = [c \in Ctx |-> NULL]
  /\ lbucket = [c \in Ctx |-> 0]
  /\ lr = [c \in Ctx |-> 0]
  /\ held = [c \in Ctx |-> {}]
  /\ pins = [b \in Buf |-> 0]
  /\ calls = 0

\* a call returns: the locals go out of scope
Return(c) ==
  /\ pc' = [pc EXCEPT ![c] = "idle"]
  /\ ldev' = [ldev EXCEPT ![c] = 0]
  /\ lblockno' = [lblockno EXCEPT ![c] = 0]
  /\ lb' = [lb EXCEPT ![c] = NULL]
  /\ lbucket' = [lbucket EXCEPT ![c] = 0]
  /\ lr' = [lr EXCEPT ![c] = 0]

\* ------------------------------------------------------------------- bget
\* the lookup loop of bget: the first buffer of the list from p that matches
\* (d, n); NULL when the list ends; SPIN when the walk comes back to a
\* buffer it has already passed, so that the loop does not end
SPIN == -2
RECURSIVE Lookup(_, _, _, _)
Lookup(p, d, n, seen) ==
  IF p = NULL THEN NULL
  ELSE IF dev[p] = d /\ blockno[p] = n THEN p
  ELSE IF p \in seen THEN SPIN
  ELSE Lookup(next[p], d, n, seen \cup {p})

\* bread(dev, blockno) calls bget(dev, blockno), the only caller of the
\* static bget: bucket is computed
CallBread(c, d, n) ==
  /\ pc[c] = "idle"
  /\ calls < MaxCalls
  /\ calls' = calls + 1
  /\ pc' = [pc EXCEPT ![c] = "bget_acq"]
  /\ ldev' = [ldev EXCEPT ![c] = d]
  /\ lblockno' = [lblockno EXCEPT ![c] = n]
  /\ lbucket' = [lbucket EXCEPT ![c] = hash(n)]
  /\ UNCHANGED <<cachevars, lb, lr, held, pins>>

\* acquire(&bucket->lock)
BgetAcquire(c) ==
  /\ pc[c] = "bget_acq"
  /\ bucketlock[lbucket[c]] = NoCtx
  /\ bucketlock' = [bucketlock EXCEPT ![lbucket[c]] = c]
  /\ pc' = [pc EXCEPT ![c] = "bget_scan"]
  /\ UNCHANGED <<bufvars, buflock, head, bcachelock, localvars, held, pins,
                 calls>>

\* the lookup loop: on a match b->refcnt is loaded; on a miss the loop ends
BgetScan(c) ==
  /\ pc[c] = "bget_scan"
  /\ LET m == Lookup(head[lbucket[c]], ldev[c], lblockno[c], {}) IN
       /\ m # SPIN
       /\ IF m # NULL
            THEN /\ lb' = [lb EXCEPT ![c] = m]
                 /\ lr' = [lr EXCEPT ![c] = refcnt[m]]
                 /\ pc' = [pc EXCEPT ![c] = "bget_hit"]
            ELSE /\ pc' = [pc EXCEPT ![c] = "bget_pool"]
                 /\ UNCHANGED <<lb, lr>>
  /\ UNCHANGED <<cachevars, ldev, lblockno, lbucket, held, pins,
                 calls>>

\* mutant of BgetHit: the hit path goes to acquiresleep without
\* release(&bucket->lock)
BgetHit_KeepsLock(c) ==
  /\ pc[c] = "bget_hit"
  /\ refcnt' = [refcnt EXCEPT ![lb[c]] = UInc(lr[c])]
  /\ pc' = [pc EXCEPT ![c] = "bget_sleep"]
  /\ UNCHANGED <<dev, blockno, valid, prev, next, buflock, head, bucketlock,
                 bcachelock, localvars, held, pins, calls>>

\* b->refcnt++ is stored; release(&bucket->lock)
BgetHit(c) ==
  /\ pc[c] = "bget_hit"
  /\ refcnt' = [refcnt EXCEPT ![lb[c]] = UInc(lr[c])]
  /\ bucketlock' = [bucketlock EXCEPT ![lbucket[c]] = NoCtx]
  /\ pc' = [pc EXCEPT ![c] = "bget_sleep"]
  /\ UNCHANGED <<dev, blockno, valid, prev, next, buflock, head, bcachelock,
                 localvars, held, pins, calls>>

\* mutant of BgetPoolAcquire: the allocation scan starts at bcache.buf + 1
BgetPoolAcquire_SkipsFirst(c) ==
  /\ pc[c] = "bget_pool"
  /\ bcachelock = NoCtx
  /\ bcachelock' = c
  /\ lb' = [lb EXCEPT ![c] = 1]
  /\ pc' = [pc EXCEPT ![c] = "bget_recycle"]
  /\ UNCHANGED <<bufvars, buflock, head, bucketlock, ldev, lblockno, lbucket,
                 lr, held, pins, calls>>

\* acquire(&bcache.lock); b = bcache.buf
BgetPoolAcquire(c) ==
  /\ pc[c] = "bget_pool"
  /\ bcachelock = NoCtx
  /\ bcachelock' = c
  /\ lb' = [lb EXCEPT ![c] = 0]
  /\ pc' = [pc EXCEPT ![c] = "bget_recycle"]
  /\ UNCHANGED <<bufvars, buflock, head, bucketlock, ldev, lblockno, lbucket,
                 lr, held, pins, calls>>

\* mutant of BgetRecycle: the claim of a Buffer without
\* release(&bcache.lock)
BgetRecycle_KeepsPoolLock(c) ==
  /\ pc[c] = "bget_recycle"
  /\ IF lb[c] = NBUF
       THEN /\ pc' = [pc EXCEPT ![c] = "panic_bget"]
            /\ UNCHANGED <<refcnt, lb>>
       ELSE IF refcnt[lb[c]] = 0
         THEN /\ refcnt' = [refcnt EXCEPT ![lb[c]] = 1]
              /\ pc' = [pc EXCEPT ![c] = "bget_init"]
              /\ UNCHANGED lb
         ELSE /\ lb' = [lb EXCEPT ![c] = lb[c] + 1]
              /\ UNCHANGED <<refcnt, pc>>
  /\ UNCHANGED <<dev, blockno, valid, prev, next, buflock, head, bucketlock,
                 bcachelock, ldev, lblockno, lbucket, lr, held, pins, calls>>

\* one iteration of the allocation scan, or panic("bget: no buffers")
BgetRecycle(c) ==
  /\ pc[c] = "bget_recycle"
  /\ IF lb[c] = NBUF
       THEN /\ pc' = [pc EXCEPT ![c] = "panic_bget"]
            /\ UNCHANGED <<refcnt, bcachelock, lb>>
       ELSE IF refcnt[lb[c]] = 0
         THEN /\ refcnt' = [refcnt EXCEPT ![lb[c]] = 1]
              /\ bcachelock' = NoCtx
              /\ pc' = [pc EXCEPT ![c] = "bget_init"]
              /\ UNCHANGED lb
         ELSE /\ lb' = [lb EXCEPT ![c] = lb[c] + 1]
              /\ UNCHANGED <<refcnt, bcachelock, pc>>
  /\ UNCHANGED <<dev, blockno, valid, prev, next, buflock, head, bucketlock,
                 ldev, lblockno, lbucket, lr, held, pins, calls>>

\* the claimed buffer takes the identity and is pushed at the bucket's head;
\* release(&bucket->lock)
BgetInit(c) ==
  /\ pc[c] = "bget_init"
  /\ LET b == lb[c]
         k == lbucket[c]
         prev1 == [prev EXCEPT ![b] = NULL]
         next1 == [next EXCEPT ![b] = head[k]]
     IN
       /\ dev' = [dev EXCEPT ![b] = ldev[c]]
       /\ blockno' = [blockno EXCEPT ![b] = lblockno[c]]
       /\ valid' = [valid EXCEPT ![b] = FALSE]
       /\ IF head[k] = NULL
            THEN /\ prev' = prev1
                 /\ next' = [next EXCEPT ![b] = NULL]
            ELSE /\ next' = next1
                 /\ prev' = [prev1 EXCEPT ![next1[b]] = b]
       /\ head' = [head EXCEPT ![k] = b]
       /\ bucketlock' = [bucketlock EXCEPT ![k] = NoCtx]
  /\ pc' = [pc EXCEPT ![c] = "bget_sleep"]
  /\ UNCHANGED <<refcnt, buflock, bcachelock, localvars, held, pins, calls>>

\* mutant of BgetSleep: bget returns b without waiting for b->lock
BgetSleep_NoWait(c) ==
  /\ pc[c] = "bget_sleep"
  /\ buflock' = [buflock EXCEPT ![lb[c]] = c]
  /\ IF ~valid[lb[c]]
       THEN /\ pc' = [pc EXCEPT ![c] = "bread_io"]
            /\ UNCHANGED <<localvars, held>>
       ELSE /\ held' = [held EXCEPT ![c] = @ \cup {lb[c]}]
            /\ Return(c)
  /\ UNCHANGED <<bufvars, head, bucketlock, bcachelock, pins, calls>>

\* mutant of BgetSleep: bread transfers without testing b->valid
BgetSleep_AlwaysReads(c) ==
  /\ pc[c] = "bget_sleep"
  /\ buflock[lb[c]] = NoCtx
  /\ buflock' = [buflock EXCEPT ![lb[c]] = c]
  /\ pc' = [pc EXCEPT ![c] = "bread_io"]
  /\ UNCHANGED <<bufvars, head, bucketlock, bcachelock, localvars, held, pins,
                 calls>>

\* acquiresleep(&b->lock); return b to bread, which tests b->valid and
\* either starts virtio_disk_rw(b, 0) or returns b
BgetSleep(c) ==
  /\ pc[c] = "bget_sleep"
  /\ buflock[lb[c]] = NoCtx
  /\ buflock' = [buflock EXCEPT ![lb[c]] = c]
  /\ IF ~valid[lb[c]]
       THEN /\ pc' = [pc EXCEPT ![c] = "bread_io"]
            /\ UNCHANGED <<localvars, held>>
       ELSE /\ held' = [held EXCEPT ![c] = @ \cup {lb[c]}]
            /\ Return(c)
  /\ UNCHANGED <<bufvars, head, bucketlock, bcachelock, pins, calls>>

\* ------------------------------------------------------------------ bread
\* virtio_disk_rw(b, 0) has completed; b->valid = 1; return b
BreadIo(c) ==
  /\ pc[c] = "bread_io"
  /\ valid' = [valid EXCEPT ![lb[c]] = TRUE]
  /\ held' = [held EXCEPT ![c] = @ \cup {lb[c]}]
  /\ Return(c)
  /\ UNCHANGED <<refcnt, dev, blockno, prev, next, buflock, head, bucketlock,
                 bcachelock, pins, calls>>

\* ----------------------------------------------------------------- bwrite
\* if(!holdingsleep(&b->lock)) panic("bwrite"); virtio_disk_rw(b, 1) starts
CallBwrite(c, b) ==
  /\ pc[c] = "idle"
  /\ calls < MaxCalls
  /\ calls' = calls + 1
  /\ IF buflock[b] # c
       THEN pc' = [pc EXCEPT ![c] = "panic_bwrite"]
       ELSE pc' = [pc EXCEPT ![c] = "bwrite_io"]
  /\ lb' = [lb EXCEPT ![c] = b]
  /\ UNCHANGED <<cachevars, ldev, lblockno, lbucket, lr, held, pins>>

\* mutant of BwriteIo: bwrite gives up b->lock once the block is written
BwriteIo_Unlocks(c) ==
  /\ pc[c] = "bwrite_io"
  /\ buflock' = [buflock EXCEPT ![lb[c]] = NoCtx]
  /\ held' = [held EXCEPT ![c] = @ \ {lb[c]}]
  /\ Return(c)
  /\ UNCHANGED <<bufvars, head, bucketlock, bcachelock, pins, calls>>

\* virtio_disk_rw(b, 1) has completed; return
BwriteIo(c) ==
  /\ pc[c] = "bwrite_io"
  /\ Return(c)
  /\ UNCHANGED <<cachevars, held, pins, calls>>

\* ----------------------------------------------------------------- brelse
\* mutant of CallBrelse: brelse without releasesleep(&b->lock)
CallBrelse_KeepsSleeplock(c, b) ==
  /\ pc[c] = "idle"
  /\ calls < MaxCalls
  /\ calls' = calls + 1
  /\ lb' = [lb EXCEPT ![c] = b]
  /\ lbucket' = [lbucket EXCEPT ![c] = hash(blockno[b])]
  /\ IF buflock[b] # c
       THEN /\ pc' = [pc EXCEPT ![c] = "panic_brelse"]
            /\ UNCHANGED held
       ELSE /\ pc' = [pc EXCEPT ![c] = "brelse_acq"]
            /\ held' = [held EXCEPT ![c] = @ \ {b}]
  /\ UNCHANGED <<bufvars, buflock, head, bucketlock, bcachelock, ldev,
                 lblockno, lr, pins>>

\* mutant of CallBrelse: brelse without the holdingsleep check
CallBrelse_NoCheck(c, b) ==
  /\ pc[c] = "idle"
  /\ calls < MaxCalls
  /\ calls' = calls + 1
  /\ buflock' = [buflock EXCEPT ![b] = NoCtx]
  /\ pc' = [pc EXCEPT ![c] = "brelse_acq"]
  /\ held' = [held EXCEPT ![c] = @ \ {b}]
  /\ lb' = [lb EXCEPT ![c] = b]
  /\ lbucket' = [lbucket EXCEPT ![c] = hash(blockno[b])]
  /\ UNCHANGED <<bufvars, head, bucketlock, bcachelock, ldev, lblockno, lr,
                 pins>>

\* bucket is computed; if(!holdingsleep(&b->lock)) panic("brelse");
\* releasesleep(&b->lock)
CallBrelse(c, b) ==
  /\ pc[c] = "idle"
  /\ calls < MaxCalls
  /\ calls' = calls + 1
  /\ IF buflock[b] # c
       THEN /\ pc' = [pc EXCEPT ![c] = "panic_brelse"]
            /\ UNCHANGED <<buflock, held>>
       ELSE /\ buflock' = [buflock EXCEPT ![b] = NoCtx]
            /\ pc' = [pc EXCEPT ![c] = "brelse_acq"]
            /\ held' = [held EXCEPT ![c] = @ \ {b}]
  /\ lb' = [lb EXCEPT ![c] = b]
  /\ lbucket' = [lbucket EXCEPT ![c] = hash(blockno[b])]
  /\ UNCHANGED <<bufvars, head, bucketlock, bcachelock, ldev, lblockno, lr,
                 pins>>

\* acquire(&bucket->lock)
BrelseAcquire(c) ==
  /\ pc[c] = "brelse_acq"
  /\ bucketlock[lbucket[c]] = NoCtx
  /\ bucketlock' = [bucketlock EXCEPT ![lbucket[c]] = c]
  /\ pc' = [pc EXCEPT ![c] = "brelse_cs"]
  /\ UNCHANGED <<bufvars, buflock, head, bcachelock, localvars, held, pins,
                 calls>>

\* the decrement, or the unlinking and refcnt = 0; release(&bucket->lock)
BrelseCs(c) ==
  /\ pc[c] = "brelse_cs"
  /\ LET b == lb[c]
         k == lbucket[c]
         next1 == IF prev[b] # NULL
                    THEN [next EXCEPT ![prev[b]] = next[b]] ELSE next
         prev1 == IF next1[b] # NULL
                    THEN [prev EXCEPT ![next1[b]] = prev[b]] ELSE prev
     IN
       IF refcnt[b] # 1
         THEN /\ refcnt' = [refcnt EXCEPT ![b] = UDec(refcnt[b])]
              /\ UNCHANGED <<prev, next, head>>
         ELSE /\ next' = next1
              /\ prev' = prev1
              /\ head' = IF head[k] = b
                           THEN [head EXCEPT ![k] = next1[b]] ELSE head
              /\ refcnt' = [refcnt EXCEPT ![b] = 0]
  /\ bucketlock' = [bucketlock EXCEPT ![lbucket[c]] = NoCtx]
  /\ Return(c)
  /\ UNCHANGED <<dev, blockno, valid, buflock, bcachelock, held, pins, calls>>

\* ------------------------------------------------------------ bpin, bunpin
\* contexts that are inside a call of the given positions on buffer b
Inside(b, pcs) == { c \in Ctx : pc[c] \in pcs /\ lb[c] = b }

\* bpin(b) is called, by a context that holds b
CallBpin(c, b) ==
  /\ pc[c] = "idle"
  /\ calls < MaxCalls
  /\ b \in held[c]
  /\ pins[b] + Cardinality(Inside(b, {"bpin_acq", "bpin_cs"})) < MaxPin
  /\ calls' = calls + 1
  /\ pc' = [pc EXCEPT ![c] = "bpin_acq"]
  /\ lb' = [lb EXCEPT ![c] = b]
  /\ UNCHANGED <<cachevars, ldev, lblockno, lbucket, lr, held, pins>>

\* acquire(&bcache.buckets[b->blockno % NBUCKET].lock)
BpinAcquire(c) ==
  /\ pc[c] = "bpin_acq"
  /\ LET k == hash(blockno[lb[c]]) IN
       /\ bucketlock[k] = NoCtx
       /\ bucketlock' = [bucketlock EXCEPT ![k] = c]
       /\ lbucket' = [lbucket EXCEPT ![c] = k]
  /\ pc' = [pc EXCEPT ![c] = "bpin_cs"]
  /\ UNCHANGED <<bufvars, buflock, head, bcachelock, ldev, lblockno, lb, lr,
                 held, pins, calls>>

\* release(&bcache.buckets[b->blockno % NBUCKET].lock): the bucket is
\* computed again; releasing a spinlock the caller does not hold is a panic
ReleaseBucketOf(c, b) ==
  LET k == hash(blockno[b]) IN
    IF bucketlock[k] = c
      THEN /\ bucketlock' = [bucketlock EXCEPT ![k] = NoCtx]
           /\ Return(c)
      ELSE /\ pc' = [pc EXCEPT ![c] = "panic_release"]
           /\ UNCHANGED <<bucketlock, localvars>>

\* b->refcnt++; release(...)
BpinCs(c) ==
  /\ pc[c] = "bpin_cs"
  /\ refcnt' = [refcnt EXCEPT ![lb[c]] = UInc(refcnt[lb[c]])]
  /\ pins' = [pins EXCEPT ![lb[c]] = @ + 1]
  /\ ReleaseBucketOf(c, lb[c])
  /\ UNCHANGED <<dev, blockno, valid, prev, next, buflock, head, bcachelock,
                 held, calls>>

\* bunpin(b) is called, by any context, for a pin that is outstanding
CallBunpin(c, b) ==
  /\ pc[c] = "idle"
  /\ calls < MaxCalls
  /\ pins[b] > Cardinality(Inside(b, {"bunpin_acq", "bunpin_cs"}))
  /\ calls' = calls + 1
  /\ pc' = [pc EXCEPT ![c] = "bunpin_acq"]
  /\ lb' = [lb EXCEPT ![c] = b]
  /\ UNCHANGED <<cachevars, ldev, lblockno, lbucket, lr, held, pins>>

\* acquire(&bcache.buckets[b->blockno % NBUCKET].lock)
BunpinAcquire(c) ==
  /\ pc[c] = "bunpin_acq"
  /\ LET k == hash(blockno[lb[c]]) IN
       /\ bucketlock[k] = NoCtx
       /\ bucketlock' = [bucketlock EXCEPT ![k] = c]
       /\ lbucket' = [lbucket EXCEPT ![c] = k]
  /\ pc' = [pc EXCEPT ![c] = "bunpin_cs"]
  /\ UNCHANGED <<bufvars, buflock, head, bcachelock, ldev, lblockno, lb, lr,
                 held, pins, calls>>

\* b->refcnt--; release(...)
BunpinCs(c) ==
  /\ pc[c] = "bunpin_cs"
  /\ refcnt' = [refcnt EXCEPT ![lb[c]] = UDec(refcnt[lb[c]])]
  /\ pins' = [pins EXCEPT ![lb[c]] = @ - 1]
  /\ ReleaseBucketOf(c, lb[c])
  /\ UNCHANGED <<dev, blockno, valid, prev, next, buflock, head, bcachelock,
                 held, calls>>

\* ======================================================================
\* Properties
\* ======================================================================
ident(b) == <<dev[b], blockno[b]>>
Holders(b) == { c \in Ctx : b \in held[c] }

\* a context holds b (its bread has returned b and it has not called brelse
\* on it) or a pin on b is outstanding
Live(b) == Holders(b) # {} \/ pins[b] > 0

\* positions of a bread that has passed its increment (or claim) of
\* b->refcnt, and of a brelse that has not yet reached its decrement
PastInc == {"bget_init", "bget_sleep", "bread_io"}
InRelse == {"brelse_acq", "brelse_cs"}

\* the buffers a walk along nx from p passes
RECURSIVE Reach(_, _, _)
Reach(nx, p, seen) ==
  IF p = NULL \/ p \in seen THEN seen ELSE Reach(nx, nx[p], seen \cup {p})

List(k) == Reach(next, head[k], {})

\* C1 (as claimed): identity sharing - no two distinct Buffers that are held
\* or pinned carry the same (dev, blockno), so that a bread for an identity
\* that somebody holds or pins gets that very Buffer.
C1_IdentitySharing ==
  \A b1, b2 \in Buf :
    (b1 # b2 /\ Live(b1) /\ Live(b2)) => ident(b1) # ident(b2)

\* C2: mutual exclusion - a Buffer is held (between the return of bread and
\* the matching brelse) by at most one context, and whoever holds it owns
\* its sleeplock.
C2_MutualExclusion ==
  \A b \in Buf :
    /\ Cardinality(Holders(b)) <= 1
    /\ \A c \in Holders(b) : buflock[b] = c

\* C2 witness: a context holds a Buffer while another context, having
\* passed its increment on the same Buffer, waits for the sleeplock.
C2_Witness ==
  \E b \in Buf, c1, c2 \in Ctx :
    /\ c1 # c2
    /\ b \in held[c1]
    /\ pc[c2] = "bget_sleep" /\ lb[c2] = b

\* the references to b that contexts and pins account for
Refs(b) ==
  Cardinality(Holders(b)) + Cardinality(Inside(b, PastInc \cup InRelse))
    + pins[b]

\* C3 (as claimed): reference-count accounting - refcnt equals the breads
\* past the increment and not yet through the decrement of their brelse,
\* plus the outstanding pins.
C3_RefcountAccounting == \A b \in Buf : refcnt[b] = Refs(b)


\* b has been claimed by an allocation scan that has not yet written its
\* new identity
Claimed(b) == Inside(b, {"bget_init"}) # {}

C5_RecycleOnlyWhenFree ==
  [][ /\ \A c \in Ctx :
           (pc[c] = "bget_recycle" /\ pc'[c] = "bget_init") =>
             (refcnt[lb[c]] = 0 /\ ~Live(lb[c]))
      /\ \A b \in Buf :
           (dev'[b] # dev[b] \/ blockno'[b] # blockno[b]) =>
             (refcnt[b] = 1 /\ ~Live(b)) ]_vars

\* C6: lock-contract fail-fast - bwrite or brelse on a Buffer whose sleeplock
\* the caller does not hold panics, with no field of the cache, no lock and
\* no list link changed and no transfer started.
C6_FailFast ==
  [][ \A c \in Ctx :
        (pc[c] = "idle" /\ pc'[c] \in {"bwrite_io", "brelse_acq",
                                       "panic_bwrite", "panic_brelse"}
           /\ buflock[lb'[c]] # c) =>
          (pc'[c] \in {"panic_bwrite", "panic_brelse"}
             /\ UNCHANGED cachevars) ]_vars

\* C6 witness: a context has panicked in brelse on a Buffer that another
\* context holds.
C6_Witness ==
  \E c \in Ctx :
    /\ pc[c] = "panic_brelse"
    /\ Holders(lb[c]) # {} /\ c \notin Holders(lb[c])

\* every Buffer of the pool is held, and no two carry the same identity
AllHeldDistinct ==
  /\ \A b \in Buf : Holders(b) # {}
  /\ \A b1, b2 \in Buf : b1 # b2 => ident(b1) # ident(b2)

InBget == {"bget_acq", "bget_scan", "bget_hit", "bget_pool", "bget_recycle",
           "bget_init", "bget_sleep", "bread_io", "panic_bget"}

\* C7 (as claimed): when all NBUF Buffers are held, with NBUF distinct
\* identities, a bread of a further identity is on its way to
\* panic("bget: no buffers"): its lookup ends in a miss, the allocation scan
\* claims nothing, and it never comes to wait for a sleeplock.
C7_ExhaustionIsFatal ==
  \A c \in Ctx :
    (AllHeldDistinct /\ pc[c] \in InBget
       /\ \A b \in Buf : ident(b) # <<ldev[c], lblockno[c]>>) =>
      /\ pc[c] \in {"bget_acq", "bget_scan", "bget_pool", "bget_recycle",
                    "panic_bget"}
      /\ pc[c] = "bget_scan" =>
           Lookup(head[lbucket[c]], ldev[c], lblockno[c], {}) = NULL

\* b is on the list of bucket k, or a next or prev of that list points at it
LinkedIn(hd, nx, pv, k, b) ==
  LET l == Reach(nx, hd[k], {}) IN
    b \in l \/ \E x \in l : nx[x] = b \/ pv[x] = b

\* C8 (as claimed): detach-on-zero - a brelse that finds refcnt == 1 leaves
\* refcnt 0 and the Buffer unreachable from the head of its bucket, with no
\* next or prev of that list pointing at it; a brelse that finds refcnt > 1
\* only decrements refcnt and leaves the list as it was.
C8_DetachOnZero ==
  [][ \A c \in Ctx :
        (pc[c] = "brelse_cs" /\ pc'[c] = "idle") =>
          LET b == lb[c]
              k == lbucket[c] IN
            /\ refcnt[b] = 1 =>
                 (refcnt'[b] = 0 /\ ~LinkedIn(head', next', prev', k, b))
            /\ refcnt[b] > 1 =>
                 (refcnt'[b] = refcnt[b] - 1 /\ b \in List(k)
                    /\ UNCHANGED <<head, next, prev>>) ]_vars

\* C9: bwrite by the holder always starts the disk transfer, whatever valid
\* is, and neither the call nor the transfer changes valid, refcnt, the
\* identity, the list links or the ownership of any lock.
C9_WriteUnconditional ==
  [][ \A c \in Ctx :
        /\ (pc[c] = "idle" /\ pc'[c] \in {"bwrite_io", "panic_bwrite"}
              /\ buflock[lb'[c]] = c) => pc'[c] = "bwrite_io"
        /\ (pc[c] # pc'[c] /\ "bwrite_io" \in {pc[c], pc'[c]}) =>
             UNCHANGED cachevars ]_vars

\* C9 witness: the holder's bwrite is in its disk transfer on a Buffer
\* whose valid is true.
C9_Witness ==
  \E c \in Ctx :
    pc[c] = "bwrite_io" /\ valid[lb[c]] /\ buflock[lb[c]] = c

\* C10 (as claimed): bread(dev, blockno) returns a Buffer that carries
\* (dev, blockno), is valid and is locked by the caller; the read transfer
\* is started exactly when valid was false, and runs under the sleeplock.
C10_ReadContract ==
  [][ \A c \in Ctx :
        /\ (pc[c] \in {"bget_sleep", "bread_io"} /\ pc'[c] = "idle") =>
             LET b == lb[c] IN
               /\ ident(b) = <<ldev[c], lblockno[c]>>
               /\ valid'[b]
               /\ buflock'[b] = c
        /\ (pc[c] = "bget_sleep" /\ pc'[c] # pc[c]) =>
             (pc'[c] = "bread_io" <=> ~valid[lb[c]])
        /\ pc'[c] = "bread_io" => buflock'[lb[c]] = c ]_vars

\* the buckets on whose list b is reachable from the head
Attached(b) == { k \in Bucket : b \in List(k) }

\* C11 (as claimed): a Buffer whose refcnt is 0 is on no bucket's list.
C11_ZeroIsDetached ==
  \A b \in Buf : refcnt[b] = 0 => Attached(b) = {}

\* C12 (as claimed): a Buffer is on the list of at most one bucket, and that
\* bucket is the one its blockno hashes to.
C12_OneListByHash ==
  \A b \in Buf : Attached(b) \subseteq {hash(blockno[b])}


\* the fields of the Buffers other than b that a step leaves alone; with
\* links = TRUE the list links prev and next are among them, otherwise the
\* prev of the bucket's former head hd is left out
OthersKept(b, hd, links) ==
  \A o \in Buf \ {b} :
    /\ refcnt'[o] = refcnt[o] /\ dev'[o] = dev[o]
    /\ blockno'[o] = blockno[o] /\ valid'[o] = valid[o]
    /\ next'[o] = next[o]
    /\ (links \/ o # hd) => prev'[o] = prev[o]

\* what the steps of a miss in bget do: the scan starts at index 0, moves on
\* only from a Buffer whose refcnt it found non-zero, claims the Buffer it
\* finds with refcnt 0 by refcnt = 1, and then gives it the identity,
\* valid = FALSE and the head of the identity's bucket
MissSteps(c, links) ==
  LET b == lb[c]
      k == hash(lblockno[c])
  IN
    /\ (pc[c] = "bget_pool" /\ pc'[c] = "bget_recycle") => lb'[c] = 0
    /\ (pc[c] = "bget_recycle" /\ pc'[c] = "bget_recycle" /\ lb'[c] # b) =>
         /\ b \in Buf /\ refcnt[b] # 0 /\ lb'[c] = b + 1
         /\ UNCHANGED <<bufvars, head>>
    /\ (pc[c] = "bget_recycle" /\ pc'[c] = "bget_init") =>
         /\ b \in Buf /\ refcnt[b] = 0 /\ lb'[c] = b
         /\ refcnt'[b] = 1
         /\ UNCHANGED <<dev, blockno, valid, prev, next, head>>
         /\ OthersKept(b, NULL, TRUE)
    /\ (pc[c] = "bget_init" /\ pc'[c] = "bget_sleep") =>
         /\ dev'[b] = ldev[c] /\ blockno'[b] = lblockno[c] /\ ~valid'[b]
         /\ refcnt'[b] = refcnt[b]
         /\ head' = [head EXCEPT ![k] = b]
         /\ next'[b] = head[k]
         /\ head[k] \notin {NULL, b} => prev'[head[k]] = b
         /\ OthersKept(b, head[k], links)

\* C13 (as claimed): first-free recycling - a miss claims the lowest-index
\* Buffer whose refcnt is 0 when the scan examines it, sets refcnt = 1, the
\* requested dev and blockno and valid = FALSE, and pushes it at the head of
\* the identity's bucket; no field of any other Buffer changes.
C13_FirstFreeRecycling == [][\A c \in Ctx : MissSteps(c, TRUE)]_vars

\* C13 (amended): as above, but of the other Buffers the former head of the
\* bucket's list has its prev set to the claimed Buffer; nothing else of the
\* other Buffers changes.
C13_FirstFreeLinksHead == [][\A c \in Ctx : MissSteps(c, FALSE)]_vars

\* a miss has skipped buf 0, in use, claimed buf 1 and pushed it in front of
\* another Buffer
C13_Witness ==
  \E c \in Ctx :
    /\ pc[c] = "bget_sleep" /\ lb[c] = 1 /\ ~valid[1] /\ refcnt[1] = 1
    /\ ident(1) = <<ldev[c], lblockno[c]>>
    /\ head[lbucket[c]] = 1 /\ next[1] = 0 /\ prev[0] = 1
    /\ refcnt[0] > 0


\* the bucket locks that context c holds
LocksOf(c) == { k \in Bucket : bucketlock[k] = c }

\* the positions at which a context is about to acquire a bucket lock
AcquiringBucket == {"bget_acq", "brelse_acq", "bpin_acq", "bunpin_acq"}

\* C14: lock ordering - no context holds two bucket locks; a context that
\* holds bcache.lock, or is about to acquire it, holds exactly one bucket
\* lock, taken before; a context about to acquire a bucket lock holds
\* neither bcache.lock nor another bucket lock.
C14_LockOrdering ==
  \A c \in Ctx :
    /\ Cardinality(LocksOf(c)) <= 1
    /\ (bcachelock = c \/ pc[c] = "bget_pool") => Cardinality(LocksOf(c)) = 1
    /\ pc[c] \in AcquiringBucket => bcachelock # c /\ LocksOf(c) = {}

\* one context scans the pool under bcache.lock and its bucket lock while
\* another, holding a different bucket lock, waits for bcache.lock
C14_Witness ==
  \E c, w \in Ctx :
    /\ bcachelock = c /\ pc[c] = "bget_recycle" /\ pc[w] = "bget_pool"
    /\ LocksOf(c) # {} /\ LocksOf(w) # {} /\ LocksOf(c) # LocksOf(w)

\* the positions at which a context sleeps for b->lock or is inside
\* virtio_disk_rw
Suspending == {"bget_sleep", "bread_io", "bwrite_io"}

\* C15: no spinlock across suspension - a context that waits for a Buffer's
\* sleeplock or is inside the disk transfer holds no bucket lock and not
\* bcache.lock; brelse has given up b->lock, and holds no spinlock, when it
\* comes to acquire the bucket lock.
C15_NoSpinlockAcrossSleep ==
  \A c \in Ctx :
    /\ pc[c] \in Suspending => LocksOf(c) = {} /\ bcachelock # c
    /\ pc[c] = "brelse_acq" =>
         buflock[lb[c]] # c /\ LocksOf(c) = {} /\ bcachelock # c

\* a context sleeps for the sleeplock of a Buffer whose holder is in brelse
\* of another Buffer, past releasesleep and before the bucket lock
C15_Witness ==
  \E c, h \in Ctx :
    /\ pc[c] = "bget_sleep" /\ buflock[lb[c]] = h /\ h # c
    /\ pc[h] = "brelse_acq"


\* the context that holds the lock c is waiting for at its position, NoCtx
\* when c is not waiting for a lock that is taken
WaitsFor(c) ==
  IF pc[c] \in {"bget_acq", "brelse_acq"} THEN bucketlock[lbucket[c]]
  ELSE IF pc[c] \in {"bpin_acq", "bunpin_acq"}
    THEN bucketlock[hash(blockno[lb[c]])]
  ELSE IF pc[c] = "bget_pool" THEN bcachelock
  ELSE IF pc[c] = "bget_sleep" THEN buflock[lb[c]]
  ELSE NoCtx

\* every context has at most one Buffer, counting the one a bread in
\* progress is getting
OneAtATime ==
  \A c \in Ctx :
    Cardinality(held[c]) + (IF pc[c] \in InBget THEN 1 ELSE 0) <= 1

\* no context has panicked
NoFault == \A c \in Ctx : pc[c] \notin PanicPcs

\* the contexts that are inside a call or still hold a Buffer
Unfinished == { c \in Ctx : pc[c] # "idle" \/ held[c] # {} }

\* C16: deadlock freedom - when no context has more than one Buffer and
\* none has panicked, the unfinished contexts are never all waiting for a
\* bucket lock, bcache.lock or a sleeplock that is taken.
C16_DeadlockFreedom ==
  (OneAtATime /\ NoFault /\ Unfinished # {}) =>
    \E c \in Unfinished : WaitsFor(c) = NoCtx

\* under these conditions a bread sleeps for the sleeplock of a Buffer whose
\* holder is outside any call, the only context that can move
C16_Witness ==
  /\ OneAtATime /\ NoFault
  /\ \E c, h \in Ctx :
       /\ pc[c] = "bget_sleep" /\ WaitsFor(c) = h /\ h # c
       /\ pc[h] = "idle" /\ held[h] = {lb[c]}
       /\ \A o \in Unfinished \ {h} : WaitsFor(o) # NoCtx


\* C17 (as claimed): every write of valid - the reset in bget's recycling
\* and the setting in bread - is made by a context that holds the Buffer's
\* sleeplock at that moment.
C17_ValidWrittenUnderLock ==
  [][\A c \in Ctx :
       /\ (pc[c] = "bget_init" /\ pc'[c] = "bget_sleep") => buflock[lb[c]] = c
       /\ (pc[c] = "bread_io" /\ pc'[c] = "idle") => buflock[lb[c]] = c
       /\ \A b \in Buf : valid'[b] # valid[b] => buflock[b] # NoCtx ]_vars


\* C18 (as claimed): a brelse that leaves the Buffer with refcnt >= 1, and
\* so on its list, leaves it at the head of its bucket's list.
C18_ReleaseMovesToHead ==
  [][\A c \in Ctx :
       (pc[c] = "brelse_cs" /\ pc'[c] = "idle" /\ refcnt'[lb[c]] >= 1) =>
         head'[hash(blockno'[lb[c]])] = lb[c] ]_vars


\* C19 (as claimed): no spurious exhaustion - bget panics with "no buffers"
\* only in a state where every Buffer of the pool has refcnt # 0.
C19_NoSpuriousExhaustion ==
  [][\A c \in Ctx :
       (pc[c] # "panic_bget" /\ pc'[c] = "panic_bget") =>
         \A b \in Buf : refcnt[b] # 0 ]_vars


\* the walk along nx from p comes back to a Buffer it has passed
RECURSIVE Cyclic(_, _, _)
Cyclic(nx, p, seen) ==
  IF p = NULL THEN FALSE
  ELSE IF p \in seen THEN TRUE
  ELSE Cyclic(nx, nx[p], seen \cup {p})

\* C20 (as claimed): list well-formedness - every bucket's list ends in
\* NULL, no Buffer on it is its own next, prev is the inverse of next along
\* it, and no lookup loop of bget runs for ever.
C20_ListsWellFormed ==
  /\ \A k \in Bucket :
       /\ ~Cyclic(next, head[k], {})
       /\ head[k] # NULL => prev[head[k]] = NULL
       /\ \A b \in List(k) :
            /\ next[b] # b
            /\ next[b] # NULL => prev[next[b]] = b
  /\ \A c \in Ctx :
       pc[c] = "bget_scan" =>
         Lookup(head[lbucket[c]], ldev[c], lblockno[c], {}) # SPIN

Next ==
  \/ \E c \in Ctx, id \in Ids : CallBread(c, id[1], id[2])
  \/ \E c \in Ctx : BgetAcquire(c)
  \/ \E c \in Ctx : BgetScan(c)
  \/ \E c \in Ctx : BgetHit(c)
  \/ \E c \in Ctx : BgetPoolAcquire(c)
  \/ \E c \in Ctx : BgetRecycle(c)
  \/ \E c \in Ctx : BgetInit(c)
  \/ \E c \in Ctx : BgetSleep(c)
  \/ \E c \in Ctx : BreadIo(c)
  \/ \E c \in Ctx, b \in Buf : CallBwrite(c, b)
  \/ \E c \in Ctx : BwriteIo(c)
  \/ \E c \in Ctx, b \in Buf : CallBrelse(c, b)
  \/ \E c \in Ctx : BrelseAcquire(c)
  \/ \E c \in Ctx : BrelseCs(c)
  \/ \E c \in Ctx, b \in Buf : CallBpin(c, b)
  \/ \E c \in Ctx : BpinAcquire(c)
  \/ \E c \in Ctx : BpinCs(c)
  \/ \E c \in Ctx, b \in Buf : CallBunpin(c, b)
  \/ \E c \in Ctx : BunpinAcquire(c)
  \/ \E c \in Ctx : BunpinCs(c)

Spec == Init /\ [][Next]_vars
====
